---- MODULE Spec2Model ----
(***************************************************************************)
(* A model of the 16-bit GPR CPU emulator (src/src/gpr_cpu.cpp) and of its *)
(* two-pass assembler (src/assembler.cpp).                                 *)
(*                                                                         *)
(* Machine words are naturals below 2^16; a token of the source text is a  *)
(* sequence of one-character strings, a source line is the sequence of the *)
(* tokens tokenize() yields for it, a source text is a sequence of lines.  *)
(* Memory is kept sparse: a function from the addresses written so far to  *)
(* their words, every other word being the 0 the Bus constructor puts      *)
(* there.                                                                  *)
(***************************************************************************)
EXTENDS Integers, Sequences, FiniteSets, TLC

VARIABLES
    source,    \* assemble(): the source text, a sequence of token lines
    memSize,   \* capacity of Bus::memory, which main.cpp hands to assemble() as memSize
    phase,     \* "pass1" | "pass2" | "run" | "failed" | "threw" | "ub" | "codec"
    lineNum,   \* assemble(): lineNum, the number of lines read in this pass
    pc,        \* assemble(): pc, the address counter / emission cursor
    labels,    \* assemble(): labels, name -> address
    res,       \* assemble(): res, the AssembleResult
    hist1,     \* history: pc after each line of pass 1
    hist2,     \* history: pc after each line of pass 2
    oob,       \* history: pass 2 has stored outside the buffer
    mem,       \* Bus::memory, address -> word (absent = 0)
    R,         \* CPUState::R
    PC,        \* CPUState::PC
    FLAGS,     \* CPUState::FLAGS
    halted,    \* CPUState::halted
    ret,       \* what the last step() returned ("none" before the first)
    nsteps,    \* number of step() calls so far
    last,      \* history: the CPU state the last step() started from, and the word it fetched
    cycles,    \* GPRCPU::run: cycles
    runAt,     \* GPRCPU::run: "idle" (not called) | "loop" | "done" (has returned cycles)
    codec      \* what is under test: the fields and word of the codec, or the parameters of the program loaded

vars == <<source, memSize, phase, lineNum, pc, labels, res, hist1, hist2, oob, mem,
          R, PC, FLAGS, halted, ret, nsteps, last, cycles, runAt, codec>>

asmVars == <<source, memSize, lineNum, pc, labels, res, hist1, hist2, oob>>
cpuVars == <<R, PC, FLAGS, halted, ret, nsteps, last, cycles, runAt>>

(***************************************************************************)
(* Bounds of the model.                                                    *)
(***************************************************************************)
MaxSteps == 6     \* step() calls explored per run
MaxLines == 3     \* lines of a source text drawn from the line menu

(***************************************************************************)
(* Word arithmetic.                                                        *)
(***************************************************************************)
WORD == 65536                      \* uint16_t: values are taken modulo 2^16
MEMORY_SIZE == 65536               \* gpr_cpu.h (not under src/): one word per 16-bit address
FLAG_ZERO == 1                     \* gpr_cpu.h (not under src/)
FLAG_CARRY == 2                    \* gpr_cpu.h (not under src/)
FLAG_NEGATIVE == 4                 \* gpr_cpu.h (not under src/)

U16(x) == x % WORD

RECURSIVE BitAnd(_, _)
BitAnd(a, b) ==
    IF a = 0 \/ b = 0 THEN 0
    ELSE (a % 2) * (b % 2) + 2 * BitAnd(a \div 2, b \div 2)

RECURSIVE BitOr(_, _)
BitOr(a, b) ==
    IF a = 0 THEN b
    ELSE IF b = 0 THEN a
    ELSE (IF a % 2 = 1 \/ b % 2 = 1 THEN 1 ELSE 0) + 2 * BitOr(a \div 2, b \div 2)

RECURSIVE BitXor(_, _)
BitXor(a, b) ==
    IF a = 0 THEN b
    ELSE IF b = 0 THEN a
    ELSE ((a + b) % 2) + 2 * BitXor(a \div 2, b \div 2)

BitNot16(a) == (WORD - 1) - a

(***************************************************************************)
(* Bus.  The capacity of Bus::memory is the constant MEMORY_SIZE of        *)
(* gpr_cpu.h; the model holds it in memSize, the value main.cpp passes to  *)
(* assemble() along with the memory.                                       *)
(***************************************************************************)
BusRead(m, address) ==
    IF address < memSize
    THEN (IF address \in DOMAIN m THEN m[address] ELSE 0)
    ELSE 0

Mut_BusWrite(m, address, value) == (address :> value) @@ m
BusWrite(m, address, value) ==
    IF address < memSize
    THEN (address :> value) @@ m
    ELSE m

(***************************************************************************)
(* Instruction codec: the decoder of the CPU and the encoder of the        *)
(* assembler.                                                              *)
(***************************************************************************)
Mut_decodeOpcode(inst) == (inst \div 4096) % 8
decodeOpcode(inst) == (inst \div 4096) % 16

decodeRd(inst) == (inst \div 512) % 8

Mut_decodeRs(inst) == (inst \div 32) % 8
decodeRs(inst) == (inst \div 64) % 8

decodeImm9(inst) == inst % 512

Mut_encMOVI(rd, imm9) == BitOr(BitOr(4096, (rd % 8) * 512), imm9 % 256)
encMOVI(rd, imm9) == BitOr(BitOr(4096, (rd % 8) * 512), imm9 % 512)

encRR(op, rd, rs) == BitOr(BitOr((op % 16) * 4096, (rd % 8) * 512), (rs % 8) * 64)

(***************************************************************************)
(* Flag updates.  Each takes the FLAGS value before and yields the one     *)
(* after.                                                                  *)
(***************************************************************************)
ClearFlags(f) == BitAnd(f, BitNot16(BitOr(BitOr(FLAG_ZERO, FLAG_CARRY), FLAG_NEGATIVE)))

FlagIf(f, cond, bit) == IF cond THEN BitOr(f, bit) ELSE f

Mut_setResultFlags(f, result) ==
    FlagIf(FlagIf(f, result = 0, FLAG_ZERO),
           BitAnd(result, 32768) # 0, FLAG_NEGATIVE)
setResultFlags(f, result) ==
    FlagIf(FlagIf(ClearFlags(f), result = 0, FLAG_ZERO),
           BitAnd(result, 32768) # 0, FLAG_NEGATIVE)

Mut_setAddFlags(f, a, b, result) ==
    FlagIf(FlagIf(FlagIf(ClearFlags(f), result = 0, FLAG_ZERO),
                  BitAnd(result, 32768) # 0, FLAG_NEGATIVE),
           (a + b) >= (WORD - 1), FLAG_CARRY)
setAddFlags(f, a, b, result) ==
    FlagIf(FlagIf(FlagIf(ClearFlags(f), result = 0, FLAG_ZERO),
                  BitAnd(result, 32768) # 0, FLAG_NEGATIVE),
           (a + b) > (WORD - 1), FLAG_CARRY)

Mut_setSubFlags(f, a, b, result) ==
    FlagIf(FlagIf(FlagIf(ClearFlags(f), result = 0, FLAG_ZERO),
                  BitAnd(result, 32768) # 0, FLAG_NEGATIVE),
           a > b, FLAG_CARRY)
setSubFlags(f, a, b, result) ==
    FlagIf(FlagIf(FlagIf(ClearFlags(f), result = 0, FLAG_ZERO),
                  BitAnd(result, 32768) # 0, FLAG_NEGATIVE),
           a >= b, FLAG_CARRY)

Mut_HasFlag(f, bit) == BitAnd(f, bit) = 0
HasFlag(f, bit) == BitAnd(f, bit) # 0

(***************************************************************************)
(* GPRCPU::reset.                                                          *)
(***************************************************************************)
ResetR == [i \in 0..7 |-> 0]

(***************************************************************************)
(* GPRCPU::execute, on a record s = [R, PC, FLAGS, halted, mem] in which   *)
(* step() has already advanced PC.                                         *)
(***************************************************************************)
Mut_SetReg(s, rd, v, f) ==
    [s EXCEPT !.R = [@ EXCEPT ![rd] = v, ![(rd + 1) % 8] = v], !.FLAGS = f]
SetReg(s, rd, v, f) == [s EXCEPT !.R = [@ EXCEPT ![rd] = v], !.FLAGS = f]

Mut_ShiftFlags(f, result, out) ==
    FlagIf(FlagIf(ClearFlags(f), result = 0, FLAG_ZERO),
           BitAnd(result, 32768) # 0, FLAG_NEGATIVE)
ShiftFlags(f, result, out) ==
    FlagIf(FlagIf(FlagIf(ClearFlags(f), result = 0, FLAG_ZERO),
                  BitAnd(result, 32768) # 0, FLAG_NEGATIVE),
           out, FLAG_CARRY)

execute(s, instruction) ==
    LET op   == decodeOpcode(instruction)
        rd   == decodeRd(instruction)
        rs   == decodeRs(instruction)
        imm9 == decodeImm9(instruction)
        a    == s.R[rd]
        b    == s.R[rs]
    IN CASE op = 0  -> [s EXCEPT !.halted = TRUE]
         [] op = 1  -> SetReg(s, rd, imm9, setResultFlags(s.FLAGS, imm9))
         [] op = 2  -> SetReg(s, rd, b, setResultFlags(s.FLAGS, b))
         [] op = 3  -> LET v == BusRead(s.mem, b)
                       IN SetReg(s, rd, v, setResultFlags(s.FLAGS, v))
         [] op = 4  -> [s EXCEPT !.mem = BusWrite(s.mem, b, a)]
         [] op = 5  -> LET result == U16(a + b)
                       IN SetReg(s, rd, result, setAddFlags(s.FLAGS, a, b, result))
         [] op = 6  -> LET result == U16(a - b)
                       IN SetReg(s, rd, result, setSubFlags(s.FLAGS, a, b, result))
         [] op = 7  -> LET v == BitAnd(a, b)
                       IN SetReg(s, rd, v, setResultFlags(s.FLAGS, v))
         [] op = 8  -> LET v == BitOr(a, b)
                       IN SetReg(s, rd, v, setResultFlags(s.FLAGS, v))
         [] op = 9  -> LET v == BitXor(a, b)
                       IN SetReg(s, rd, v, setResultFlags(s.FLAGS, v))
         [] op = 10 -> LET v == BitNot16(b)
                       IN SetReg(s, rd, v, setResultFlags(s.FLAGS, v))
         [] op = 11 -> LET v == U16(a * 2)
                       IN SetReg(s, rd, v, ShiftFlags(s.FLAGS, v, BitAnd(a, 32768) # 0))
         [] op = 12 -> LET v == a \div 2
                       IN SetReg(s, rd, v, ShiftFlags(s.FLAGS, v, BitAnd(a, 1) # 0))
         [] op = 13 -> [s EXCEPT !.PC = b]
         [] op = 14 -> IF HasFlag(s.FLAGS, FLAG_ZERO) THEN [s EXCEPT !.PC = b] ELSE s
         [] OTHER   -> s

(***************************************************************************)
(* GPRCPU::step.  One call of step(); main.cpp and run() call it in a loop *)
(* once assemble() has returned ok, the model up to MaxSteps times.        *)
(***************************************************************************)
Mut_StepHalted ==
    /\ PC' = U16(PC + 1)
    /\ UNCHANGED <<R, FLAGS, halted, mem>>
StepHalted ==
    UNCHANGED <<R, PC, FLAGS, halted, mem>>

StepFetched(s2) ==
    /\ R' = s2.R
    /\ PC' = s2.PC
    /\ FLAGS' = s2.FLAGS
    /\ halted' = s2.halted
    /\ mem' = s2.mem
    /\ ret' = ~s2.halted

Step ==
    /\ phase = "run"
    /\ nsteps < MaxSteps
    /\ nsteps' = nsteps + 1
    /\ last' = [instr |-> IF halted THEN -1 ELSE BusRead(mem, PC),
                R |-> R, PC |-> PC, FLAGS |-> FLAGS, halted |-> halted]
    /\ IF halted
       THEN ret' = FALSE /\ StepHalted
       ELSE StepFetched(execute([R |-> R, PC |-> U16(PC + 1), FLAGS |-> FLAGS,
                                 halted |-> halted, mem |-> mem],
                                BusRead(mem, PC)))
    /\ UNCHANGED <<source, memSize, phase, lineNum, pc, labels, res, hist1, hist2, oob, codec>>
    /\ UNCHANGED <<cycles, runAt>>

(***************************************************************************)
(* GPRCPU::run.  RunCall enters run() (cycles = 0); RunIter is one turn of *)
(* `while (step()) ++cycles;`: the step() call, the test of what it        *)
(* returned, and either the increment or the return of cycles.             *)
(***************************************************************************)
Mut_RunTest(r) ==
    /\ cycles' = cycles + 1
    /\ runAt' = IF r THEN "loop" ELSE "done"
RunTest(r) ==
    /\ cycles' = IF r THEN cycles + 1 ELSE cycles
    /\ runAt' = IF r THEN "loop" ELSE "done"

RunCall ==
    /\ phase = "run"
    /\ runAt = "idle"
    /\ runAt' = "loop"
    /\ cycles' = 0
    /\ UNCHANGED <<source, memSize, phase, lineNum, pc, labels, res, hist1, hist2, oob, codec>>
    /\ UNCHANGED <<mem, R, PC, FLAGS, halted, ret, nsteps, last>>

RunIter ==
    /\ phase = "run"
    /\ runAt = "loop"
    /\ nsteps < MaxSteps
    /\ nsteps' = nsteps + 1
    /\ last' = [instr |-> IF halted THEN -1 ELSE BusRead(mem, PC),
                R |-> R, PC |-> PC, FLAGS |-> FLAGS, halted |-> halted]
    /\ IF halted
       THEN ret' = FALSE /\ StepHalted
       ELSE StepFetched(execute([R |-> R, PC |-> U16(PC + 1), FLAGS |-> FLAGS,
                                 halted |-> halted, mem |-> mem],
                                BusRead(mem, PC)))
    /\ RunTest(ret')
    /\ UNCHANGED <<source, memSize, phase, lineNum, pc, labels, res, hist1, hist2, oob, codec>>

(***************************************************************************)
(* Text helpers of the assembler.  A string is a sequence of one-character *)
(* strings.                                                                *)
(***************************************************************************)
Lower == <<"a","b","c","d","e","f","g","h","i","j","k","l","m",
           "n","o","p","q","r","s","t","u","v","w","x","y","z">>
Upper == <<"A","B","C","D","E","F","G","H","I","J","K","L","M",
           "N","O","P","Q","R","S","T","U","V","W","X","Y","Z">>
HexUpper == <<"0","1","2","3","4","5","6","7","8","9","A","B","C","D","E","F">>

UpperOf == [i \in 1..26 |-> Upper[i]]
LowerIndex == [c \in {Lower[i] : i \in 1..26} |-> CHOOSE i \in 1..26 : Lower[i] = c]

toUpperChar(c) == IF c \in DOMAIN LowerIndex THEN UpperOf[LowerIndex[c]] ELSE c

toUpper(s) == [i \in 1..Len(s) |-> toUpperChar(s[i])]

getOpcode(mnem) ==
    CASE mnem = <<"H","A","L","T">>     -> 0
      [] mnem = <<"M","O","V","I">>     -> 1
      [] mnem = <<"M","O","V">>         -> 2
      [] mnem = <<"L","O","A","D">>     -> 3
      [] mnem = <<"S","T","O","R","E">> -> 4
      [] mnem = <<"A","D","D">>         -> 5
      [] mnem = <<"S","U","B">>         -> 6
      [] mnem = <<"A","N","D">>         -> 7
      [] mnem = <<"O","R">>             -> 8
      [] mnem = <<"X","O","R">>         -> 9
      [] mnem = <<"N","O","T">>         -> 10
      [] mnem = <<"S","H","L">>         -> 11
      [] mnem = <<"S","H","R">>         -> 12
      [] mnem = <<"J","M","P">>         -> 13
      [] mnem = <<"J","Z">>             -> 14
      [] mnem = <<"N","O","P">>         -> 15
      [] OTHER                          -> -1

HexIndex == [c \in {HexUpper[i] : i \in 1..16} |-> CHOOSE i \in 1..16 : HexUpper[i] = c]

\* The value of c as a digit (0..15), or 99 when c is no digit of any base.
DigitVal(c) ==
    IF toUpperChar(c) \in DOMAIN HexIndex THEN HexIndex[toUpperChar(c)] - 1 ELSE 99

\* The longest run of base-`base` digits of s from position i on: its value and
\* its length, as strtoul and strtol scan it.
RECURSIVE ScanDigits(_, _, _, _, _)
ScanDigits(s, i, base, acc, cnt) ==
    IF i > Len(s) \/ DigitVal(s[i]) >= base
    THEN [v |-> acc, cnt |-> cnt]
    ELSE ScanDigits(s, i + 1, base, acc * base + DigitVal(s[i]), cnt + 1)

HasSign(s) == Len(s) >= 1 /\ s[1] \in {"+", "-"}

\* std::stoul(s, &idx, 0): an optional sign, then 0x/0X and hex digits, or a
\* leading 0 and octal digits, or decimal digits; the longest such prefix is
\* converted and the rest of s ignored; with no digit at all it throws
\* std::invalid_argument.  (std::out_of_range needs more digits than a token
\* of the model has.)  The value is that of the unsigned long, taken modulo
\* 2^16 as parseNumber does next.
stoul(s) ==
    LET i   == IF HasSign(s) THEN 2 ELSE 1
        hex == /\ Len(s) >= i + 2
               /\ s[i] = "0"
               /\ s[i + 1] \in {"x", "X"}
               /\ DigitVal(s[i + 2]) < 16
        oct == Len(s) >= i /\ s[i] = "0"
        d   == IF hex THEN ScanDigits(s, i + 2, 16, 0, 0)
               ELSE IF oct THEN ScanDigits(s, i, 8, 0, 0)
               ELSE ScanDigits(s, i, 10, 0, 0)
    IN IF d.cnt = 0 THEN [threw |-> TRUE, v |-> 0]
       ELSE [threw |-> FALSE,
             v |-> IF HasSign(s) /\ s[1] = "-" THEN (WORD - (d.v % WORD)) % WORD
                   ELSE d.v % WORD]

\* parseNumber: the low 16 bits of stoul's value, or -1 when stoul throws.
parseNumber(s) ==
    LET n == stoul(s) IN IF n.threw THEN -1 ELSE BitAnd(n.v, 65535)

\* std::stoi(s, nullptr, 10).
stoi(s) ==
    LET i == IF HasSign(s) THEN 2 ELSE 1
        d == ScanDigits(s, i, 10, 0, 0)
    IN IF d.cnt = 0 THEN [threw |-> TRUE, v |-> 0]
       ELSE [threw |-> FALSE, v |-> IF HasSign(s) /\ s[1] = "-" THEN 0 - d.v ELSE d.v]

RECURSIVE StripParens(_)
StripParens(t) ==
    IF Len(t) >= 2 /\ t[1] = "(" /\ t[Len(t)] = ")"
    THEN StripParens(SubSeq(t, 2, Len(t) - 1))
    ELSE t

\* parseReg: st = "ok" with the register in r, "no" for false, "throw" when
\* stoi throws.
parseReg(s) ==
    LET t == StripParens(s)
    IN IF Len(t) < 2 \/ (t[1] # "R" /\ t[1] # "r") THEN [st |-> "no", r |-> 0]
       ELSE LET n == stoi(SubSeq(t, 2, Len(t)))
            IN IF n.threw THEN [st |-> "throw", r |-> 0]
               ELSE IF n.v < 0 \/ n.v > 7 THEN [st |-> "no", r |-> 0]
               ELSE [st |-> "ok", r |-> n.v]

(***************************************************************************)
(* Lines.  `rest` of the code is the line with its comment and outer       *)
(* blanks removed; the model holds its tokens.                             *)
(***************************************************************************)
RECURSIVE JoinTokens(_)
JoinTokens(line) ==
    IF line = << >> THEN << >>
    ELSE IF Len(line) = 1 THEN line[1]
    ELSE line[1] \o <<" ">> \o JoinTokens(Tail(line))

RECURSIVE TrimRight(_)
TrimRight(t) ==
    IF t # << >> /\ t[Len(t)] = " " THEN TrimRight(SubSeq(t, 1, Len(t) - 1)) ELSE t

\* rest.back() == ':'
IsLabelLine(line) ==
    /\ line # << >>
    /\ line[Len(line)][Len(line[Len(line)])] = ":"

\* trim(rest.substr(0, rest.size() - 1))
LabelName(line) ==
    LET rest == JoinTokens(line)
    IN TrimRight(SubSeq(rest, 1, Len(rest) - 1))

DOT_ORG == <<".","O","R","G">>
DOT_WORD == <<".","W","O","R","D">>

\* labels.count(toUpper(arg)) ? labels[toUpper(arg)] : parseNumber(arg); -1 when
\* parseNumber throws.
Resolve(arg, lab) ==
    IF toUpper(arg) \in DOMAIN lab THEN lab[toUpper(arg)] ELSE parseNumber(arg)

(***************************************************************************)
(* Pass 1 on one line: the counter and the label table after it, or the    *)
(* error it returns, or the exception that escapes.                        *)
(***************************************************************************)
P1(kind, p, lab, msg) == [kind |-> kind, pc |-> p, labels |-> lab, error |-> msg]

Mut_pass1Line(line, p, lab) ==
    IF line = << >> THEN P1("cont", p, lab, "")
    ELSE IF IsLabelLine(line)
    THEN P1("cont", p, IF LabelName(line) # << >>
                       THEN (toUpper(LabelName(line)) :> p) @@ lab ELSE lab, "")
    ELSE LET tok == line
             cmd == toUpper(tok[1])
         IN IF cmd = DOT_ORG
            THEN IF Len(tok) < 2 THEN P1("err", p, lab, ".ORG requires address")
                 ELSE IF parseNumber(tok[2]) = -1 THEN P1("throw", p, lab, "")
                 ELSE P1("cont", parseNumber(tok[2]), lab, "")
            ELSE IF cmd = DOT_WORD
            THEN IF Len(tok) = 1 THEN P1("err", p, lab, ".WORD requires value")
                 ELSE IF Len(tok) = 2 THEN P1("cont", U16(p + 1), lab, "")
                 ELSE P1("cont", p, lab, "")
            ELSE P1("cont", U16(p + 1), lab, "")
pass1Line(line, p, lab) ==
    IF line = << >> THEN P1("cont", p, lab, "")
    ELSE IF IsLabelLine(line)
    THEN P1("cont", p, IF LabelName(line) # << >>
                       THEN (toUpper(LabelName(line)) :> p) @@ lab ELSE lab, "")
    ELSE LET tok == line
             cmd == toUpper(tok[1])
         IN IF cmd = DOT_ORG
            THEN IF Len(tok) < 2 THEN P1("err", p, lab, ".ORG requires address")
                 ELSE IF parseNumber(tok[2]) = -1 THEN P1("throw", p, lab, "")
                 ELSE P1("cont", parseNumber(tok[2]), lab, "")
            ELSE IF cmd = DOT_WORD
            THEN IF Len(tok) = 1 THEN P1("err", p, lab, ".WORD requires value")
                 ELSE IF Len(tok) = 2 THEN P1("cont", U16(p + 1), lab, "")
                 ELSE P1("cont", p, lab, "")
            ELSE IF getOpcode(cmd) >= 0 THEN P1("cont", U16(p + 1), lab, "")
            ELSE P1("err", p, lab, "Unknown")

(***************************************************************************)
(* Pass 2 on one line: the cursor after it and the stores it makes, in     *)
(* order, or the error it returns, or the exception that escapes.  A store *)
(* is [addr, val]; the stores of mem[pc++] = ... are made unconditionally, *)
(* those of .WORD only when the address is below the capacity.             *)
(***************************************************************************)
P2(kind, p, writes, msg) == [kind |-> kind, pc |-> p, writes |-> writes, error |-> msg]

St(addr, val) == [addr |-> addr, val |-> val]

\* mem[pc++] = inst, the last statement of the loop body
Emit(p, pre, inst) == P2("cont", U16(p + 1), Append(pre, St(p, inst)), "")

asmMOVI(tok, p, lab) ==
    IF Len(tok) < 3 THEN P2("err", p, << >>, "MOVI Rd, imm")
    ELSE LET rd == parseReg(tok[2])
         IN IF rd.st = "throw" THEN P2("throw", p, << >>, "")
            ELSE IF rd.st = "no" THEN P2("err", p, << >>, "Invalid register")
            ELSE LET imm == Resolve(tok[3], lab)
                 IN IF imm = -1 THEN P2("throw", p, << >>, "")
                    ELSE Emit(p, << >>, encMOVI(rd.r, BitAnd(imm, 511)))

asmJump(op, tok, p, lab) ==
    IF Len(tok) < 2 THEN P2("err", p, << >>, "JMP/JZ needs target")
    ELSE LET rs == parseReg(tok[2])
         IN IF rs.st = "throw" THEN P2("throw", p, << >>, "")
            ELSE IF rs.st = "ok" THEN Emit(p, << >>, encRR(op, 0, rs.r))
            ELSE LET target == Resolve(tok[2], lab)
                 IN IF target = -1 THEN P2("throw", p, << >>, "")
                    ELSE IF target > 511
                    THEN P2("err", p, << >>, "Jump target > 511 (MOVI 9-bit limit); use register")
                    ELSE Emit(U16(p + 1), <<St(p, encMOVI(7, target))>>, encRR(op, 0, 7))

asmRR(op, tok, p, lab) ==
    IF Len(tok) < 2 THEN P2("err", p, << >>, "Needs operands")
    ELSE LET rd == parseReg(tok[2])
         IN IF rd.st = "throw" THEN P2("throw", p, << >>, "")
            ELSE IF rd.st = "no" THEN P2("err", p, << >>, "Invalid Rd")
            ELSE IF op = 10 \/ op = 11 \/ op = 12 THEN Emit(p, << >>, encRR(op, rd.r, rd.r))
            ELSE IF Len(tok) >= 3
            THEN LET rs == parseReg(tok[3])
                 IN IF rs.st = "throw" THEN P2("throw", p, << >>, "")
                    ELSE IF rs.st = "ok" THEN Emit(p, << >>, encRR(op, rd.r, rs.r))
                    ELSE LET val == Resolve(tok[3], lab)
                         IN IF val = -1 THEN P2("throw", p, << >>, "")
                            ELSE Emit(p, << >>, encRR(op, rd.r, BitAnd(val, 7)))
            ELSE Emit(p, << >>, encRR(op, rd.r, 0))

asmWord(tok, p, cap) ==
    IF Len(tok) < 2 THEN P2("cont", p, << >>, "")
    ELSE IF parseNumber(tok[2]) = -1 THEN P2("throw", p, << >>, "")
    ELSE IF Len(tok) >= 3
    THEN IF parseNumber(tok[3]) = -1 THEN P2("throw", p, << >>, "")
         ELSE P2("cont", p,
                 IF parseNumber(tok[2]) < cap
                 THEN <<St(parseNumber(tok[2]), parseNumber(tok[3]))>> ELSE << >>, "")
    ELSE P2("cont", U16(p + 1),
            IF p < cap THEN <<St(p, parseNumber(tok[2]))>> ELSE << >>, "")

pass2Line(line, p, lab, cap) ==
    IF line = << >> THEN P2("cont", p, << >>, "")
    ELSE IF IsLabelLine(line) THEN P2("cont", p, << >>, "")
    ELSE LET tok == line
             cmd == toUpper(tok[1])
             op  == getOpcode(cmd)
         IN IF cmd = DOT_ORG
            THEN IF Len(tok) >= 2
                 THEN IF parseNumber(tok[2]) = -1 THEN P2("throw", p, << >>, "")
                      ELSE P2("cont", parseNumber(tok[2]), << >>, "")
                 ELSE P2("cont", p, << >>, "")
            ELSE IF cmd = DOT_WORD THEN asmWord(tok, p, cap)
            ELSE IF op < 0 THEN P2("err", p, << >>, "Unknown")
            ELSE IF p >= cap THEN P2("err", p, << >>, "Program too large")
            ELSE CASE op = 0  -> Emit(p, << >>, 0)
                   [] op = 1  -> asmMOVI(tok, p, lab)
                   [] op = 13 -> asmJump(op, tok, p, lab)
                   [] op = 14 -> asmJump(op, tok, p, lab)
                   [] op = 15 -> Emit(p, << >>, 61440)
                   [] OTHER   -> asmRR(op, tok, p, lab)

\* The buffer after the stores that fall inside it.
RECURSIVE Stored(_, _, _)
Stored(m, writes, cap) ==
    IF writes = << >> THEN m
    ELSE Stored(IF Head(writes).addr < cap
                THEN (Head(writes).addr :> Head(writes).val) @@ m ELSE m,
                Tail(writes), cap)

\* A store of mem[pc++] = ... at or past the capacity: outside the buffer.
StoresOutside(writes, cap) == \E k \in 1..Len(writes) : writes[k].addr >= cap

(***************************************************************************)
(* assemble(), one action per loop iteration and per loop exit.            *)
(***************************************************************************)
Pass1Line ==
    /\ phase = "pass1"
    /\ lineNum < Len(source)
    /\ \E o \in {pass1Line(source[lineNum + 1], pc, labels)} :
          /\ lineNum' = lineNum + 1
          /\ pc' = o.pc
          /\ labels' = o.labels
          /\ hist1' = Append(hist1, o.pc)
          /\ phase' = CASE o.kind = "cont"  -> "pass1"
                        [] o.kind = "err"   -> "failed"
                        [] o.kind = "throw" -> "threw"
          /\ res' = IF o.kind = "err"
                    THEN [ok |-> FALSE, error |-> o.error, lineNum |-> lineNum + 1]
                    ELSE res
    /\ UNCHANGED <<source, memSize, hist2, oob, mem, codec>>
    /\ UNCHANGED cpuVars

Pass1End ==
    /\ phase = "pass1"
    /\ lineNum = Len(source)
    /\ phase' = "pass2"
    /\ pc' = 0
    /\ lineNum' = 0
    /\ UNCHANGED <<source, memSize, labels, res, hist1, hist2, oob, mem, codec>>
    /\ UNCHANGED cpuVars

\* A store outside the buffer is undefined behaviour: the build either goes on
\* (the word lands beyond the buffer) or the process dies there.
Pass2Line ==
    /\ phase = "pass2"
    /\ lineNum < Len(source)
    /\ \E o \in {pass2Line(source[lineNum + 1], pc, labels, memSize)} :
          /\ lineNum' = lineNum + 1
          /\ pc' = o.pc
          /\ hist2' = Append(hist2, o.pc)
          /\ mem' = Stored(mem, o.writes, memSize)
          /\ oob' = (oob \/ StoresOutside(o.writes, memSize))
          /\ \E dies \in (IF StoresOutside(o.writes, memSize) THEN {FALSE, TRUE} ELSE {FALSE}) :
                phase' = IF dies THEN "ub"
                         ELSE CASE o.kind = "cont"  -> "pass2"
                                [] o.kind = "err"   -> "failed"
                                [] o.kind = "throw" -> "threw"
          /\ res' = IF o.kind = "err"
                    THEN [ok |-> FALSE, error |-> o.error, lineNum |-> lineNum + 1]
                    ELSE res
    /\ UNCHANGED <<source, memSize, labels, hist1, codec>>
    /\ UNCHANGED cpuVars

\* assemble() returns res (ok); main.cpp goes on to the step() loop.
Pass2End ==
    /\ phase = "pass2"
    /\ lineNum = Len(source)
    /\ phase' = "run"
    /\ UNCHANGED <<source, memSize, lineNum, pc, labels, res, hist1, hist2, oob, mem, codec>>
    /\ UNCHANGED cpuVars

(***************************************************************************)
(* Variables a specification does not use.                                 *)
(***************************************************************************)
NoFields == [op |-> 0, rd |-> 0, rs |-> 0, imm |-> 0]
NoCodec == [stage |-> "none", fields |-> NoFields, word |-> 0, dec |-> NoFields]
NoResult == [ok |-> TRUE, error |-> "", lineNum |-> 0]

AsmIdle ==
    /\ source = << >>
    /\ memSize = MEMORY_SIZE
    /\ lineNum = 0
    /\ pc = 0
    /\ labels = << >>
    /\ res = NoResult
    /\ hist1 = << >>
    /\ hist2 = << >>
    /\ oob = FALSE

CpuReset ==
    /\ R = ResetR
    /\ PC = 0
    /\ FLAGS = 0
    /\ halted = FALSE
    /\ ret = "none"
    /\ nsteps = 0
    /\ last = [instr |-> -1, R |-> ResetR, PC |-> 0, FLAGS |-> 0, halted |-> FALSE]
    /\ cycles = 0
    /\ runAt = "idle"

(***************************************************************************)
(* SpecCodec: the encoder and the decoder applied to every valid field     *)
(* combination.                                                            *)
(***************************************************************************)
RegisterFormOps == (0..15) \ {1}

AllFields ==
    {[op |-> o, rd |-> d, rs |-> s, imm |-> 0] : o \in RegisterFormOps, d \in 0..7, s \in 0..7}
    \cup {[op |-> 1, rd |-> d, rs |-> 0, imm |-> i] : d \in 0..7, i \in 0..511}

EncodeFields(f) == IF f.op = 1 THEN encMOVI(f.rd, f.imm) ELSE encRR(f.op, f.rd, f.rs)

InitCodec ==
    /\ phase = "codec"
    /\ \E f \in AllFields : codec = [NoCodec EXCEPT !.stage = "fields", !.fields = f]
    /\ mem = << >>
    /\ AsmIdle
    /\ CpuReset

Encode ==
    /\ phase = "codec"
    /\ codec.stage = "fields"
    /\ codec' = [codec EXCEPT !.stage = "encoded", !.word = EncodeFields(codec.fields)]
    /\ UNCHANGED <<phase, mem>>
    /\ UNCHANGED asmVars
    /\ UNCHANGED cpuVars

Decode ==
    /\ phase = "codec"
    /\ codec.stage = "encoded"
    /\ codec' = [codec EXCEPT !.stage = "decoded",
                              !.dec = [op  |-> decodeOpcode(codec.word),
                                       rd  |-> decodeRd(codec.word),
                                       rs  |-> decodeRs(codec.word),
                                       imm |-> decodeImm9(codec.word)]]
    /\ UNCHANGED <<phase, mem>>
    /\ UNCHANGED asmVars
    /\ UNCHANGED cpuVars

NextCodec == Encode \/ Decode

SpecCodec == InitCodec /\ [][NextCodec]_vars

(***************************************************************************)
(* SpecCpu: step() from the CPU states a running program can be in: any    *)
(* operand values in the two registers the instruction names, each flag    *)
(* set and clear, PC at the bottom and at the top of the address space,    *)
(* and one instruction word at PC in an otherwise zeroed memory.           *)
(***************************************************************************)
Vals == {0, 1, 32767, 32768, 65535}
Imms == {0, 1, 255, 511}
FlagVals == {0, BitOr(FLAG_ZERO, FLAG_CARRY), FLAG_NEGATIVE}
StartPCs == {0, 65535}
Fill(i) == 256 + i

CpuFields ==
    {[op |-> o, rd |-> d, rs |-> s, imm |-> 0] : o \in RegisterFormOps, d \in 0..7, s \in 0..7}
    \cup {[op |-> 1, rd |-> d, rs |-> 0, imm |-> i] : d \in 0..7, i \in Imms}

InitCpu ==
    /\ phase = "run"
    /\ \E f \in CpuFields, a \in Vals, b \in Vals, fl \in FlagVals, p \in StartPCs :
          /\ codec = [NoCodec EXCEPT !.stage = "loaded", !.fields = f, !.word = EncodeFields(f)]
          /\ mem = (p :> EncodeFields(f))
          /\ R = [i \in 0..7 |-> IF i = f.rs /\ f.op # 1 THEN b
                                 ELSE IF i = f.rd THEN a ELSE Fill(i)]
          /\ PC = p
          /\ FLAGS = fl
          /\ last = [instr |-> -1, R |-> ResetR, PC |-> 0, FLAGS |-> 0, halted |-> FALSE]
    /\ halted = FALSE
    /\ ret = "none"
    /\ nsteps = 0
    /\ cycles = 0
    /\ runAt = "idle"
    /\ AsmIdle

NextCpu == Step

SpecCpu == InitCpu /\ [][NextCpu]_vars

(***************************************************************************)
(* SpecShift: step() over the two-instruction programs SHL Rd / SHR Rd and *)
(* SHR Rd / SHL Rd, as the assembler encodes them (source field = Rd),     *)
(* from every register, flag value and a set of operand values with each   *)
(* of bit 15 and bit 0 set and clear.  codec.fields keeps the opcode of    *)
(* the first instruction in op, the register in rd and the value the       *)
(* register starts from in imm.                                            *)
(***************************************************************************)
ShiftVals == {0, 1, 2, 3, 21845, 32767, 32768, 32769, 43690, 65534, 65535}

InitShift ==
    /\ phase = "run"
    /\ \E first \in {11, 12}, d \in 0..7, a \in ShiftVals, fl \in FlagVals :
          /\ codec = [NoCodec EXCEPT !.stage = "shift",
                                     !.fields = [op |-> first, rd |-> d, rs |-> d, imm |-> a]]
          /\ mem = (0 :> encRR(first, d, d) @@ 1 :> encRR(23 - first, d, d))
          /\ R = [i \in 0..7 |-> IF i = d THEN a ELSE Fill(i)]
          /\ FLAGS = fl
    /\ PC = 0
    /\ last = [instr |-> -1, R |-> ResetR, PC |-> 0, FLAGS |-> 0, halted |-> FALSE]
    /\ halted = FALSE
    /\ ret = "none"
    /\ nsteps = 0
    /\ cycles = 0
    /\ runAt = "idle"
    /\ AsmIdle

NextShift == Step

SpecShift == InitShift /\ [][NextShift]_vars

(***************************************************************************)
(* SpecBus: step() on a Bus whose capacity is below the 2^16 addresses a   *)
(* register can hold, and on one of full capacity.  gpr_cpu.h, which sets  *)
(* MEMORY_SIZE, is not under src/: the smaller capacity stands for any     *)
(* value of the constant that leaves addresses out of range.  One LOAD,    *)
(* STORE or JMP word at PC, the address register at the last word in       *)
(* range, the first out of range and the top address.                      *)
(***************************************************************************)
SmallMemory == 256

BusSizes == {SmallMemory, MEMORY_SIZE}
BusAddrs == {0, 255, 256, 65535}
BusFields ==
    {[op |-> o, rd |-> d, rs |-> r, imm |-> 0] : o \in {3, 4, 13}, d \in 0..1, r \in 0..2}

InitBus ==
    /\ phase = "run"
    /\ memSize \in BusSizes
    /\ \E f \in BusFields, a \in {0, 7}, b \in BusAddrs, fl \in FlagVals, p \in {0, 255} :
          /\ codec = [NoCodec EXCEPT !.stage = "loaded", !.fields = f, !.word = EncodeFields(f)]
          /\ mem = (p :> EncodeFields(f))
          /\ R = [i \in 0..7 |-> IF i = f.rs THEN b ELSE IF i = f.rd THEN a ELSE Fill(i)]
          /\ PC = p
          /\ FLAGS = fl
    /\ last = [instr |-> -1, R |-> ResetR, PC |-> 0, FLAGS |-> 0, halted |-> FALSE]
    /\ halted = FALSE
    /\ ret = "none"
    /\ nsteps = 0
    /\ cycles = 0
    /\ runAt = "idle"
    /\ source = << >>
    /\ lineNum = 0
    /\ pc = 0
    /\ labels = << >>
    /\ res = NoResult
    /\ hist1 = << >>
    /\ hist2 = << >>
    /\ oob = FALSE

NextBus == Step

SpecBus == InitBus /\ [][NextBus]_vars

(***************************************************************************)
(* SpecRun: run() on a CPU as reset() leaves it, or already halted, over   *)
(* every memory with two of the words below at addresses 0 and 1 (all else *)
(* is 0, the HALT word).  JMP R0 at 0 never reaches HALT; MOVI R0, 1 then  *)
(* JMP R0 loops at 1.  The loop of run() has no exit but step() returning  *)
(* false and nothing cancels it: weak fairness of RunIter.                 *)
(***************************************************************************)
RunWords == {0, 61440, encRR(13, 0, 0), encRR(14, 0, 0), encMOVI(0, 1), encMOVI(0, 0)}

InitRun ==
    /\ phase = "run"
    /\ \E w0 \in RunWords, w1 \in RunWords :
          /\ mem = (0 :> w0 @@ 1 :> w1)
          /\ codec = [NoCodec EXCEPT !.stage = "loaded", !.word = w0]
    /\ R = ResetR
    /\ PC = 0
    /\ FLAGS = 0
    /\ halted \in BOOLEAN
    /\ ret = "none"
    /\ nsteps = 0
    /\ last = [instr |-> -1, R |-> ResetR, PC |-> 0, FLAGS |-> 0, halted |-> FALSE]
    /\ cycles = 0
    /\ runAt = "idle"
    /\ AsmIdle

NextRun == RunCall \/ RunIter

SpecRun == InitRun /\ [][NextRun]_vars /\ WF_nsteps(RunIter)

(***************************************************************************)
(* Source texts.                                                           *)
(***************************************************************************)
DecChars == <<"0","1","2","3","4","5","6","7","8","9">>

RECURSIVE ToDec(_)
ToDec(n) == IF n < 10 THEN <<DecChars[n + 1]>> ELSE Append(ToDec(n \div 10), DecChars[(n % 10) + 1])

RegTok(d) == <<"R", DecChars[d + 1]>>

T_HALT == <<"H","A","L","T">>
T_MOVI == <<"M","O","V","I">>
T_JMP == <<"J","M","P">>
T_JZ == <<"J","Z">>
T_FOO == <<"F","O","O">>
T_NOT == <<"N","O","T">>
T_L == <<"L">>
T_DONE == <<"D","O","N","E">>
T_RETRY == <<"R","E","T","R","Y">>
T_org == <<".","o","r","g">>
T_word == <<".","w","o","r","d">>
T_0x50 == <<"0","x","5","0">>
T_0xFFFF == <<"0","x","F","F","F","F">>

LabelDecl(name) == <<name \o <<":">>>>

Menu ==
    { << >>,                                \* (blank)
      LabelDecl(T_L),                       \* L:
      LabelDecl(T_RETRY),                   \* RETRY:
      <<T_org, ToDec(600)>>,                \* .org 600
      <<T_org, <<"l">>>>,                   \* .org l
      <<T_word>>,                           \* .word
      <<T_word, ToDec(7)>>,                 \* .word 7
      <<T_word, <<"l">>>>,                  \* .word l
      <<T_word, T_0x50, T_0xFFFF>>,         \* .word 0x50 0xFFFF
      <<T_HALT>>,                           \* HALT
      <<T_MOVI, RegTok(0), <<"l">>>>,       \* MOVI R0, l
      <<T_MOVI, RegTok(9), ToDec(1)>>,      \* MOVI R9, 1
      <<T_JMP, T_L>>,                       \* JMP L
      <<T_JZ, ToDec(5)>>,                   \* JZ 5
      <<T_JMP, RegTok(1)>>,                 \* JMP R1
      <<T_JZ, <<"(">> \o RegTok(2) \o <<")">>>>,   \* JZ (R2)
      <<T_JMP, ToDec(600)>>,                \* JMP 600
      <<T_JMP, T_RETRY>>,                   \* JMP RETRY
      <<T_FOO>> }                           \* FOO

Sources == UNION {[1..n -> Menu] : n \in 0..MaxLines}

AsmStart ==
    /\ phase = "pass1"
    /\ memSize = MEMORY_SIZE
    /\ lineNum = 0
    /\ pc = 0
    /\ labels = << >>
    /\ res = NoResult
    /\ hist1 = << >>
    /\ hist2 = << >>
    /\ oob = FALSE
    /\ mem = << >>
    /\ CpuReset

(***************************************************************************)
(* SpecAsm: assemble() as main.cpp calls it (a zeroed Bus memory of        *)
(* MEMORY_SIZE words), on every source text of up to MaxLines menu lines.  *)
(***************************************************************************)
InitAsm ==
    /\ source \in Sources
    /\ codec = NoCodec
    /\ AsmStart

NextAsm == Pass1Line \/ Pass1End \/ Pass2Line \/ Pass2End

SpecAsm == InitAsm /\ [][NextAsm]_vars

(***************************************************************************)
(* SpecCap: assemble() called with a buffer capacity of its caller's       *)
(* choice (memSize is a parameter): two words, 601 words, and the          *)
(* MEMORY_SIZE words main.cpp passes.  The source lines are those that     *)
(* store words or move the cursor: the cursor is taken to the last word of *)
(* the 601-word buffer by .org 600 and to the top address by .org 0xFFFF.  *)
(***************************************************************************)
CapSizes == {2, 601, MEMORY_SIZE}

CapMenu ==
    { <<T_org, ToDec(600)>>,                \* .org 600
      <<T_org, T_0xFFFF>>,                  \* .org 0xFFFF
      <<T_word, ToDec(7)>>,                 \* .word 7
      <<T_word, T_0x50, T_0xFFFF>>,         \* .word 0x50 0xFFFF
      <<T_HALT>>,                           \* HALT
      <<T_JZ, ToDec(5)>>,                   \* JZ 5
      <<T_JMP, RegTok(1)>> }                \* JMP R1

CapSources == UNION {[1..n -> CapMenu] : n \in 0..MaxLines}

InitCap ==
    /\ source \in CapSources
    /\ memSize \in CapSizes
    /\ codec = NoCodec
    /\ phase = "pass1"
    /\ lineNum = 0
    /\ pc = 0
    /\ labels = << >>
    /\ res = NoResult
    /\ hist1 = << >>
    /\ hist2 = << >>
    /\ oob = FALSE
    /\ mem = << >>
    /\ CpuReset

NextCap == Pass1Line \/ Pass1End \/ Pass2Line \/ Pass2End

SpecCap == InitCap /\ [][NextCap]_vars

(***************************************************************************)
(* SpecProg: main.cpp on three families of programs: assemble into the     *)
(* zeroed memory of a freshly reset CPU, then step().                      *)
(*   MOVI Rd, v / HALT                      for every d in 0..7, v in 0..511 *)
(*   [MOVI R1, z /] JZ name / MOVI R0, 1 / name: / HALT                    *)
(*   MOVI Rs, v / NOT Rd, Rs / HALT         for d # s                      *)
(* the optional first line of the second sets (z = 0) or clears (z = 1)    *)
(* the Zero flag before the JZ line is reached.                            *)
(***************************************************************************)
MoviHalt(d, v) == << <<T_MOVI, RegTok(d), ToDec(v)>>, <<T_HALT>> >>

JzBody(name) ==
    << <<T_JZ, name>>, <<T_MOVI, RegTok(0), ToDec(1)>>, LabelDecl(name), <<T_HALT>> >>

JzForward(name) == JzBody(name)

JzForwardAfter(z, name) == << <<T_MOVI, RegTok(1), ToDec(z)>> >> \o JzBody(name)

NotValues == {0, 5, 511}

NotOf(d, s, v) ==
    << <<T_MOVI, RegTok(s), ToDec(v)>>, <<T_NOT, RegTok(d), RegTok(s)>>, <<T_HALT>> >>

\* Each program with the parameters it was built from, kept in codec.fields:
\* MOVI/HALT as [op 1, rd d, imm v]; the JZ programs as [op 14, rs 1 iff the
\* flag-setting first line is there, imm z]; the NOT programs as [op 10, rd d,
\* rs s, imm v].
Programs ==
    {[src |-> MoviHalt(d, v), fields |-> [op |-> 1, rd |-> d, rs |-> 0, imm |-> v]] :
        d \in 0..7, v \in 0..511}
    \cup {[src |-> JzForward(n), fields |-> [op |-> 14, rd |-> 0, rs |-> 0, imm |-> 1]] :
        n \in {T_DONE, T_L}}
    \cup {[src |-> JzForwardAfter(z, n), fields |-> [op |-> 14, rd |-> 0, rs |-> 1, imm |-> z]] :
        z \in {0, 1}, n \in {T_DONE, T_L}}
    \cup UNION {{[src |-> NotOf(d, s, v), fields |-> [op |-> 10, rd |-> d, rs |-> s, imm |-> v]] :
                    s \in (0..7) \ {d}, v \in NotValues} : d \in 0..7}

InitProg ==
    /\ \E prog \in Programs :
          /\ source = prog.src
          /\ codec = [NoCodec EXCEPT !.stage = "prog", !.fields = prog.fields]
    /\ AsmStart

NextProg == Pass1Line \/ Pass1End \/ Pass2Line \/ Pass2End \/ Step

SpecProg == InitProg /\ [][NextProg]_vars

(***************************************************************************)
(* What the last step() executed.                                          *)
(***************************************************************************)
Stepped(op) == nsteps > 0 /\ last.instr # -1 /\ (last.instr \div 4096) % 16 = op
LastRd == (last.instr \div 512) % 8
LastRs == (last.instr \div 64) % 8

\* C3: one step executing ADD Rd, Rs from R[rd] = a, R[rs] = b leaves
\* R[rd] = (a + b) mod 65536, Carry iff a + b > 65535, Zero iff the wrapped
\* result is 0, Negative iff bit 15 of the wrapped result is 1.
C3_AddResultAndFlags ==
    Stepped(5) =>
        LET a == last.R[LastRd]
            b == last.R[LastRs]
            r == (a + b) % 65536
        IN /\ R[LastRd] = r
           /\ (FLAGS \div FLAG_CARRY) % 2 = (IF a + b > 65535 THEN 1 ELSE 0)
           /\ (FLAGS \div FLAG_ZERO) % 2 = (IF r = 0 THEN 1 ELSE 0)
           /\ (FLAGS \div FLAG_NEGATIVE) % 2 = (IF r >= 32768 THEN 1 ELSE 0)

\* C3 witness: an ADD of 65535 and 1 in two different registers has wrapped to 0
\* with Carry and Zero set.
C3_Witness ==
    /\ Stepped(5)
    /\ LastRd # LastRs
    /\ last.R[LastRd] = 65535
    /\ last.R[LastRs] = 1
    /\ R[LastRd] = 0
    /\ HasFlag(FLAGS, FLAG_CARRY)
    /\ HasFlag(FLAGS, FLAG_ZERO)

\* C4: one step executing SUB Rd, Rs from R[rd] = a, R[rs] = b leaves
\* R[rd] = (a - b) mod 65536 and Carry set iff a >= b, whatever bit 15 of the
\* result is.
C4_SubResultAndCarry ==
    Stepped(6) =>
        LET a == last.R[LastRd]
            b == last.R[LastRs]
        IN /\ R[LastRd] = (a - b + 65536) % 65536
           /\ (FLAGS \div FLAG_CARRY) % 2 = (IF a >= b THEN 1 ELSE 0)

\* C4 witness: a SUB with a >= b whose result has bit 15 set (Carry and Negative
\* both set), so Carry is seen not to follow the sign bit.
C4_Witness ==
    /\ Stepped(6)
    /\ last.R[LastRd] = 65535
    /\ last.R[LastRs] = 1
    /\ R[LastRd] = 65534
    /\ HasFlag(FLAGS, FLAG_CARRY)
    /\ HasFlag(FLAGS, FLAG_NEGATIVE)

\* C5: decodeOpcode/decodeRd/decodeRs of encRR(op, rd, rs) give back (op, rd, rs)
\* with bits 5..0 zero, and decodeOpcode/decodeRd/decodeImm9 of encMOVI(rd, imm)
\* give back (1, rd, imm), for every valid field combination.
C5_CodecRoundTrip ==
    codec.stage = "decoded" =>
        IF codec.fields.op = 1
        THEN /\ codec.dec.op = 1
             /\ codec.dec.rd = codec.fields.rd
             /\ codec.dec.imm = codec.fields.imm
        ELSE /\ codec.dec.op = codec.fields.op
             /\ codec.dec.rd = codec.fields.rd
             /\ codec.dec.rs = codec.fields.rs
             /\ codec.word % 64 = 0

\* C5 witness: a register-form word with the highest opcode and both register
\* fields at 7 has been encoded and decoded.
C5_Witness ==
    /\ codec.stage = "decoded"
    /\ codec.fields = [op |-> 15, rd |-> 7, rs |-> 7, imm |-> 0]
    /\ codec.word = 65472

\* C7: a step() on a halted CPU returns false and leaves registers, PC, FLAGS,
\* halted and memory as they were; step() returns false exactly when the CPU
\* was already halted or the step executed HALT.
C7_HaltedIsTerminal ==
    [][ (nsteps' = nsteps + 1) =>
          /\ (halted => /\ ret' = FALSE
                        /\ UNCHANGED <<R, PC, FLAGS, halted, mem>>)
          /\ ((ret' = FALSE) <=> (halted \/ (BusRead(mem, PC) \div 4096) % 16 = 0))
          /\ (halted' <=> (halted \/ (BusRead(mem, PC) \div 4096) % 16 = 0)) ]_vars

\* C7 witness: step() has been called on a CPU that an earlier HALT had halted.
C7_Witness ==
    /\ nsteps >= 2
    /\ last.halted
    /\ halted
    /\ ret = FALSE

(***************************************************************************)
(* Reading a source line by the grammar of the source text.                *)
(***************************************************************************)
\* R0..R7 in either case, optionally parenthesized
IsRegisterToken(t) ==
    LET u == StripParens(t)
    IN Len(u) = 2 /\ u[1] \in {"R", "r"} /\ u[2] \in {DecChars[i] : i \in 1..8}

\* a decimal literal, or 0x and hex digits
IsNumberToken(t) ==
    \/ /\ Len(t) >= 1
       /\ \A i \in 1..Len(t) : DigitVal(t[i]) < 10
       /\ (Len(t) > 1 => t[1] # "0")
    \/ /\ Len(t) >= 3
       /\ t[1] = "0"
       /\ t[2] \in {"x", "X"}
       /\ \A i \in 3..Len(t) : DigitVal(t[i]) < 16

IsInstructionLine(line) == line # << >> /\ ~IsLabelLine(line) /\ getOpcode(toUpper(line[1])) >= 0

IsJumpLine(line) ==
    line # << >> /\ ~IsLabelLine(line) /\ toUpper(line[1]) \in {T_JMP, T_JZ} /\ Len(line) >= 2

\* a JMP/JZ line whose target is no register and is a declared label or a
\* numeric literal
ResolvableJump(line, lab) ==
    /\ IsJumpLine(line)
    /\ ~IsRegisterToken(line[2])
    /\ (toUpper(line[2]) \in DOMAIN lab \/ IsNumberToken(line[2]))

\* the line starts with a token that is no mnemonic and no directive
IsUnknownLine(line) ==
    /\ line # << >>
    /\ ~IsLabelLine(line)
    /\ getOpcode(toUpper(line[1])) < 0
    /\ toUpper(line[1]) \notin {DOT_ORG, DOT_WORD}

\* a .ORG/.WORD line pass 1 cannot take: no operand, or a .ORG address that is
\* no number
IsBadDirective(line) ==
    /\ line # << >>
    /\ ~IsLabelLine(line)
    /\ toUpper(line[1]) \in {DOT_ORG, DOT_WORD}
    /\ (Len(line) < 2 \/ (toUpper(line[1]) = DOT_ORG /\ ~IsNumberToken(line[2])))

\* the labels the source text declares, uppercased
Declared ==
    {toUpper(LabelName(source[j])) :
        j \in {i \in 1..Len(source) : IsLabelLine(source[i]) /\ LabelName(source[i]) # << >>}}

\* an operand that is a declared label or a numeric literal
IsValueToken(t) == toUpper(t) \in Declared \/ IsNumberToken(t)

IsWord2Line(line) == line # << >> /\ ~IsLabelLine(line) /\ toUpper(line[1]) = DOT_WORD /\ Len(line) = 3
IsWord1Line(line) == line # << >> /\ ~IsLabelLine(line) /\ toUpper(line[1]) = DOT_WORD /\ Len(line) = 2

\* a line that is an error by the grammar: an unknown first token, a directive
\* without its operand or a .ORG address that is no number, a .WORD value that
\* is neither declared label nor number or a .WORD address (the first of two
\* operands) that is no number, an instruction
\* that lacks an operand, names no valid register where one is required, has
\* an operand that is neither register nor declared label nor number, or
\* jumps to a number above 511
Erroneous(line) ==
    \/ IsUnknownLine(line)
    \/ IsBadDirective(line)
    \/ (IsWord1Line(line) /\ ~IsValueToken(line[2]))
    \/ (IsWord2Line(line) /\ (~IsNumberToken(line[2]) \/ ~IsValueToken(line[3])))
    \/ /\ IsInstructionLine(line)
       /\ LET op == getOpcode(toUpper(line[1]))
          IN CASE op = 0 \/ op = 15 -> FALSE
               [] op = 1 ->
                    \/ Len(line) < 3
                    \/ ~IsRegisterToken(line[2])
                    \/ ~IsValueToken(line[3])
               [] op = 13 \/ op = 14 ->
                    \/ Len(line) < 2
                    \/ /\ ~IsRegisterToken(line[2])
                       /\ \/ ~IsValueToken(line[2])
                          \/ (IsNumberToken(line[2]) /\ parseNumber(line[2]) > 511)
               [] OTHER ->
                    \/ Len(line) < 2
                    \/ ~IsRegisterToken(line[2])

\* the counter before line k of a pass whose history is h
Before(h, k) == IF k = 1 THEN 0 ELSE h[k - 1]

\* assemble() has returned, or an exception has left it
AsmOver == phase \in {"run", "failed", "threw", "ub"}

\* C1: for a source assemble() accepts, pass 1 and pass 2 leave the address
\* counter at the same value after every line, and every label is bound to the
\* address the pass-2 cursor has at its declaration (where the next word is
\* written).
C1_PassesAgree ==
    (phase = "run" /\ Len(hist2) = Len(source)) =>
        \A k \in 1..Len(source) :
            /\ hist1[k] = hist2[k]
            /\ (/\ IsLabelLine(source[k])
                /\ LabelName(source[k]) # << >>
                /\ \A j \in (k + 1)..Len(source) :
                      ~(IsLabelLine(source[j]) /\ toUpper(LabelName(source[j])) = toUpper(LabelName(source[k]))))
               => labels[toUpper(LabelName(source[k]))] = hist2[k]

\* C2: JZ name / MOVI R0, 1 / name: / HALT binds the label to the address after
\* the MOVI (that of HALT), and the run ends with R0 untouched when Zero was set
\* on reaching the JZ line, with R0 = 1 when it was clear.
C2_ForwardJz ==
    (codec.stage = "prog" /\ codec.fields.op = 14 /\ phase = "run") =>
        LET jz   == codec.fields.rs + 1
            name == toUpper(source[jz][2])
            zset == codec.fields.rs = 1 /\ codec.fields.imm = 0
        IN /\ labels[name] = hist2[jz + 1]
           /\ (halted => R[0] = (IF zset THEN 0 ELSE 1))

\* C6: MOVI Rd, v / HALT on a reset CPU: the first step() returns true with
\* R[d] = v, the second returns false with halted set, R[d] still v; the CPU is
\* halted after exactly 2 steps.
C6_MoviHalt ==
    (codec.stage = "prog" /\ codec.fields.op = 1) =>
        LET d == codec.fields.rd
            v == codec.fields.imm
        IN /\ phase \in {"pass1", "pass2", "run"}
           /\ (nsteps = 0 => ~halted)
           /\ (nsteps = 1 => ret = TRUE /\ ~halted /\ R[d] = v)
           /\ (nsteps = 2 => ret = FALSE /\ halted /\ R[d] = v)
           /\ (nsteps >= 2 => halted /\ R[d] = v)

\* C6 witness: MOVI R3, 511 / HALT has halted at its second step with R3 = 511.
C6_Witness ==
    /\ codec.stage = "prog"
    /\ codec.fields = [op |-> 1, rd |-> 3, rs |-> 0, imm |-> 511]
    /\ nsteps = 2
    /\ halted
    /\ ret = FALSE
    /\ R[3] = 511

\* C8: when pass 2 comes to a JMP/JZ line whose target is no register and
\* resolves, as a declared label or a numeric literal, to more than 511,
\* assemble() returns ok = false with the jump-target error and that line's
\* number, and stores nothing.
C8_JumpTargetTooLarge ==
    [][ (/\ phase = "pass2"
         /\ lineNum < Len(source)
         /\ ResolvableJump(source[lineNum + 1], labels)
         /\ Resolve(source[lineNum + 1][2], labels) > 511)
        => /\ phase' = "failed"
           /\ res' = [ok |-> FALSE,
                      error |-> "Jump target > 511 (MOVI 9-bit limit); use register",
                      lineNum |-> lineNum + 1]
           /\ mem' = mem ]_vars

\* C9: .WORD <addr> <value> stores <value> at <addr> and moves neither the pass-1
\* counter nor the pass-2 cursor, so an instruction on the next line is emitted
\* at the cursor held before the directive and a label declared on the next
\* line is bound to that same address; .WORD <value> stores at the cursor and
\* moves both counters by one.
C9_WordDirective ==
    (phase = "run" /\ Len(hist2) = Len(source)) =>
        \A k \in 1..Len(source) :
            /\ IsWord2Line(source[k]) =>
                  /\ hist1[k] = Before(hist1, k)
                  /\ hist2[k] = Before(hist2, k)
                  /\ BusRead(mem, parseNumber(source[k][2])) = parseNumber(source[k][3])
                  /\ (k < Len(source) /\ IsInstructionLine(source[k + 1]))
                     => Before(hist2, k) \in DOMAIN mem
                  /\ (k < Len(source) /\ IsLabelLine(source[k + 1]) /\ k + 1 = Len(source))
                     => labels[toUpper(LabelName(source[k + 1]))] = Before(hist2, k)
            /\ IsWord1Line(source[k]) =>
                  /\ hist1[k] = U16(Before(hist1, k) + 1)
                  /\ hist2[k] = U16(Before(hist2, k) + 1)
                  /\ Before(hist2, k) \in DOMAIN mem

\* The directive's own effect in each pass, the label taken against the pass-1
\* counter: what of C9 holds whatever precedes the directive.
WordDirectiveFrame ==
    (phase = "run" /\ Len(hist2) = Len(source)) =>
        \A k \in 1..Len(source) :
            /\ IsWord2Line(source[k]) =>
                  /\ hist1[k] = Before(hist1, k)
                  /\ hist2[k] = Before(hist2, k)
                  /\ (k < Len(source) /\ IsInstructionLine(source[k + 1]))
                     => Before(hist2, k) \in DOMAIN mem
                  /\ (k < Len(source) /\ IsLabelLine(source[k + 1]) /\ k + 1 = Len(source))
                     => labels[toUpper(LabelName(source[k + 1]))] = Before(hist1, k)
            /\ IsWord1Line(source[k]) =>
                  /\ hist1[k] = U16(Before(hist1, k) + 1)
                  /\ hist2[k] = U16(Before(hist2, k) + 1)
                  /\ Before(hist2, k) \in DOMAIN mem

\* C10 as stated: whenever some line starts with an unknown token, assemble()
\* returns ok = false with that line's number and has stored nothing.
C10_AnyUnknownLine ==
    AsmOver =>
        \A k \in 1..Len(source) :
            IsUnknownLine(source[k]) =>
                /\ phase = "failed"
                /\ ~res.ok
                /\ res.lineNum = k
                /\ mem = << >>

\* C10 as amended: when the first erroneous line of the source is one with an
\* unknown first token, assemble() returns ok = false with the unknown-token
\* error and that line's number and stores nothing, whatever valid lines come
\* before it.
C10_FirstUnknownLine ==
    \A k \in 1..Len(source) :
        (/\ IsUnknownLine(source[k])
         /\ \A j \in 1..(k - 1) : ~Erroneous(source[j]))
        => /\ phase \in {"pass1", "failed"}
           /\ mem = << >>
           /\ (phase = "pass1" => lineNum < k)
           /\ (phase = "failed" => res = [ok |-> FALSE, error |-> "Unknown", lineNum |-> k])

\* C10 witness: HALT / FOO has been refused at line 2 with memory untouched.
C10_Witness ==
    /\ Len(source) >= 2
    /\ source[1] = <<T_HALT>>
    /\ source[2] = <<T_FOO>>
    /\ phase = "failed"
    /\ res = [ok |-> FALSE, error |-> "Unknown", lineNum |-> 2]
    /\ mem = << >>

\* C11: MOVI Rs, v / NOT Rd, Rs with rd # rs assembles NOT to a word whose
\* source field is Rs, and running it leaves R[rd] = 65535 - v, the complement
\* of what R[rs] held, with Zero and Negative taken from that result.
C11_NotSource ==
    (codec.stage = "prog" /\ codec.fields.op = 10 /\ phase = "run") =>
        LET d == codec.fields.rd
            s == codec.fields.rs
            v == codec.fields.imm
            w == IF 1 \in DOMAIN mem THEN mem[1] ELSE 0
        IN /\ (w \div 4096) % 16 = 10
           /\ (w \div 512) % 8 = d
           /\ (w \div 64) % 8 = s
           /\ nsteps >= 2 =>
                 /\ R[d] = 65535 - v
                 /\ R[s] = v
                 /\ (FLAGS \div FLAG_ZERO) % 2 = (IF 65535 - v = 0 THEN 1 ELSE 0)
                 /\ (FLAGS \div FLAG_NEGATIVE) % 2 = (IF 65535 - v >= 32768 THEN 1 ELSE 0)

(***************************************************************************)
(* The flags and the program counter across one step().                    *)
(***************************************************************************)
\* the last step() fetched and executed a word (the CPU was not halted)
Executed == nsteps > 0 /\ last.instr # -1
LastOp == (last.instr \div 4096) % 16
Bit(f, bit) == (f \div bit) % 2
Truth(b) == IF b THEN 1 ELSE 0

\* C12: after a step executing MOVI, MOV, LOAD, ADD, SUB, AND, OR, XOR, NOT, SHL
\* or SHR, whatever FLAGS held before: Zero is set iff the result (the new
\* R[rd]) is 0, Negative iff its bit 15 is 1, Carry is clear after MOVI, MOV,
\* LOAD, AND, OR, XOR and NOT, and is the function of the operands alone that
\* ADD, SUB, SHL and SHR define.
C12_FlagsFromResult ==
    (Executed /\ LastOp \in {1, 2, 3, 5, 6, 7, 8, 9, 10, 11, 12}) =>
        LET r == R[LastRd]
            a == last.R[LastRd]
            b == last.R[LastRs]
        IN /\ Bit(FLAGS, FLAG_ZERO) = Truth(r = 0)
           /\ Bit(FLAGS, FLAG_NEGATIVE) = Truth(r >= 32768)
           /\ Bit(FLAGS, FLAG_CARRY) =
                 CASE LastOp = 5  -> Truth(a + b > 65535)
                   [] LastOp = 6  -> Truth(a >= b)
                   [] LastOp = 11 -> Truth(a >= 32768)
                   [] LastOp = 12 -> a % 2
                   [] OTHER       -> 0

\* C12 witness: an AND entered with Zero and Carry set has produced 0x8000 and
\* left Negative alone set.
C12_Witness ==
    /\ Executed
    /\ LastOp = 7
    /\ last.FLAGS = FLAG_ZERO + FLAG_CARRY
    /\ R[LastRd] = 32768
    /\ FLAGS = FLAG_NEGATIVE

\* C13: a step executing HALT, STORE, JMP, JZ (taken or not) or NOP leaves FLAGS
\* and all eight registers as they were before the step.
C13_FlagsPersist ==
    (Executed /\ LastOp \in {0, 4, 13, 14, 15}) =>
        /\ FLAGS = last.FLAGS
        /\ R = last.R

\* C13 witness: a STORE entered with Zero and Carry set has written its word to
\* memory and left the flags and the registers alone.
C13_Witness ==
    /\ Executed
    /\ LastOp = 4
    /\ LastRd # LastRs
    /\ last.FLAGS = FLAG_ZERO + FLAG_CARRY
    /\ last.R[LastRd] = 32767
    /\ last.R[LastRs] = 1
    /\ 1 \in DOMAIN mem
    /\ mem[1] = 32767
    /\ FLAGS = last.FLAGS
    /\ R = last.R

\* C14: a step on a CPU that is not halted leaves PC = old PC + 1 (mod 65536)
\* for every opcode but JMP, which leaves PC = R[rs], and JZ, which leaves
\* PC = R[rs] when Zero was set before the step and old PC + 1 when it was clear.
C14_PcAdvance ==
    Executed =>
        PC = IF LastOp = 13 \/ (LastOp = 14 /\ Bit(last.FLAGS, FLAG_ZERO) = 1)
             THEN last.R[LastRs]
             ELSE (last.PC + 1) % 65536

\* C14 witness: a JZ fetched at the top address with Zero set has jumped to
\* 0x8000 instead of wrapping to 0.
C14_Witness ==
    /\ Executed
    /\ LastOp = 14
    /\ Bit(last.FLAGS, FLAG_ZERO) = 1
    /\ last.PC = 65535
    /\ last.R[LastRs] = 32768
    /\ PC = 32768

\* C15: SHL Rd leaves R[rd] = (2 * old) mod 65536 with Carry = old bit 15; SHR
\* Rd leaves R[rd] = old div 2 (bit 15 clear) with Carry = old bit 0; SHL then
\* SHR gives the starting value back iff its bit 15 was 0, SHR then SHL iff
\* its bit 0 was 0.
C15_Shifts ==
    /\ (Executed /\ LastOp = 11) =>
          /\ R[LastRd] = (2 * last.R[LastRd]) % 65536
          /\ Bit(FLAGS, FLAG_CARRY) = last.R[LastRd] \div 32768
    /\ (Executed /\ LastOp = 12) =>
          /\ R[LastRd] = last.R[LastRd] \div 2
          /\ R[LastRd] < 32768
          /\ Bit(FLAGS, FLAG_CARRY) = last.R[LastRd] % 2
    /\ (codec.stage = "shift" /\ nsteps = 2) =>
          LET a    == codec.fields.imm
              lost == IF codec.fields.op = 11 THEN a \div 32768 ELSE a % 2
          IN (R[codec.fields.rd] = a) <=> (lost = 0)

\* C15 witness: SHL R3 then SHR R3 from 0x8001 has ended with R3 = 1: the bit
\* SHL discarded is not given back.
C15_Witness ==
    /\ codec.stage = "shift"
    /\ codec.fields = [op |-> 11, rd |-> 3, rs |-> 3, imm |-> 32769]
    /\ nsteps = 2
    /\ LastOp = 12
    /\ last.R[3] = 2
    /\ R[3] = 1
    /\ Bit(FLAGS, FLAG_CARRY) = 0

\* the register a register token names
RegisterOf(t) == CHOOSE i \in 0..7 : DecChars[i + 1] = StripParens(t)[2]

\* C16: in pass 2 a JMP/JZ line whose target is a register R0..R7 (parenthesized
\* or not) stores exactly one word, the jump with that register as source, and
\* moves the cursor by 1; one whose target is a declared label or a numeric
\* literal of at most 511 stores exactly two words, MOVI R7, target and the
\* jump through R7, and moves the cursor by 2.
C16_JumpWords ==
    [][ (/\ phase = "pass2"
         /\ lineNum < Len(source)
         /\ IsJumpLine(source[lineNum + 1]))
        => LET line == source[lineNum + 1]
               op   == IF toUpper(line[1]) = T_JMP THEN 13 ELSE 14
               t    == line[2]
           IN /\ IsRegisterToken(t) =>
                    /\ phase' = "pass2"
                    /\ pc' = (pc + 1) % 65536
                    /\ mem' = (pc :> (op * 4096 + RegisterOf(t) * 64)) @@ mem
              /\ (ResolvableJump(line, labels) /\ Resolve(t, labels) <= 511) =>
                    /\ phase' = "pass2"
                    /\ pc' = (pc + 2) % 65536
                    /\ mem' = (pc :> (4096 + 7 * 512 + Resolve(t, labels)))
                              @@ ((pc + 1) % 65536 :> (op * 4096 + 7 * 64)) @@ mem ]_vars

\* C17: Bus::read of an address at or past the capacity gives 0 and Bus::write
\* to one leaves memory as it was; a step whose LOAD or STORE address is out of
\* range completes like any other (LOAD reads 0, STORE changes nothing, PC
\* moves on, the CPU is not halted and step() returns true), and a fetch from
\* an out-of-range PC reads 0, the HALT word, which is the only thing that
\* stops the CPU.
C17_OutOfRangeAbsorbed ==
    /\ [](\A address \in BusAddrs :
            address >= memSize =>
               /\ BusRead(mem, address) = 0
               /\ \A v \in {0, 7} : BusWrite(mem, address, v) = mem)
    /\ [][ (nsteps' = nsteps + 1 /\ ~halted)
           => LET w  == IF PC < memSize /\ PC \in DOMAIN mem THEN mem[PC] ELSE 0
                  op == (w \div 4096) % 16
                  rd == (w \div 512) % 8
                  rs == (w \div 64) % 8
              IN /\ phase' = "run"
                 /\ PC' = IF op = 13 THEN R[rs] ELSE (PC + 1) % 65536
                 /\ halted' = (op = 0)
                 /\ ret' = (op # 0)
                 /\ PC >= memSize => (op = 0 /\ R' = R /\ mem' = mem)
                 /\ (op = 3 /\ R[rs] >= memSize) =>
                       /\ R' = [R EXCEPT ![rd] = 0]
                       /\ mem' = mem
                 /\ (op = 4 /\ R[rs] >= memSize) =>
                       /\ mem' = mem
                       /\ R' = R
                       /\ FLAGS' = FLAGS ]_vars

\* C17 witness: on the Bus of 256 words a STORE to address 0xFFFF has completed:
\* nothing is stored there, step() returned true and the CPU runs on.
C17_Witness ==
    /\ memSize = SmallMemory
    /\ Executed
    /\ LastOp = 4
    /\ last.R[LastRs] = 65535
    /\ DOMAIN mem = {last.PC}
    /\ R = last.R
    /\ PC = last.PC + 1
    /\ ret = TRUE
    /\ ~halted

\* the word step() would fetch now is HALT
HaltIsNext == (BusRead(mem, PC) \div 4096) % 16 = 0

\* C18: run() calls step() until it returns false.  While it loops every call
\* so far returned true, no HALT was executed, the CPU is not halted and cycles
\* counts the calls; it has returned exactly when a call found the CPU halted
\* (the first call, with cycles = 0) or executed HALT, and then halted holds
\* and cycles is the number of calls that returned true, all but the last.  A
\* run() that is to fetch HALT, or that entered halted, does return.
C18_RunUntilHalt ==
    /\ [](CASE runAt = "idle" -> nsteps = 0
            [] runAt = "loop" ->
                /\ cycles = nsteps
                /\ IF nsteps > 0
                   THEN ret = TRUE /\ ~halted /\ ~last.halted /\ LastOp # 0
                   ELSE TRUE
            [] runAt = "done" ->
                /\ nsteps > 0
                /\ halted
                /\ ret = FALSE
                /\ cycles = nsteps - 1
                /\ IF last.halted THEN nsteps = 1 /\ cycles = 0 ELSE LastOp = 0)
    /\ ((runAt = "loop" /\ nsteps < MaxSteps /\ (halted \/ HaltIsNext)) ~> (runAt = "done"))

\* C18 witness: run() has returned 2 after three step() calls, the third of
\* which executed HALT.
C18_Witness ==
    /\ runAt = "done"
    /\ cycles = 2
    /\ nsteps = 3
    /\ ~last.halted
    /\ LastOp = 0
    /\ halted

\* C19: when assemble() returns ok = false, the line number it returns is that
\* of the first erroneous line of the source: the line is erroneous and no
\* line before it is.
C19_FirstErrorInSourceOrder ==
    phase = "failed" =>
        /\ ~res.ok
        /\ res.lineNum \in 1..Len(source)
        /\ Erroneous(source[res.lineNum])
        /\ \A j \in 1..(res.lineNum - 1) : ~Erroneous(source[j])

\* an instruction line with an operand that is no valid register where one is
\* required, or neither register nor declared label nor numeric literal
BadOperand(line) ==
    /\ IsInstructionLine(line)
    /\ LET op == getOpcode(toUpper(line[1]))
       IN CASE op = 0 \/ op = 15 -> FALSE
            [] op = 1 ->
                 /\ Len(line) >= 3
                 /\ (~IsRegisterToken(line[2]) \/ ~IsValueToken(line[3]))
            [] op = 13 \/ op = 14 ->
                 /\ Len(line) >= 2
                 /\ ~IsRegisterToken(line[2])
                 /\ ~IsValueToken(line[2])
            [] OTHER ->
                 /\ Len(line) >= 2
                 /\ ~IsRegisterToken(line[2])

\* C20: when pass 2 comes to an instruction line, assemble() is never left by
\* an exception, and if the line has an invalid operand it returns ok = false
\* with that line's number.
C20_BadOperandReturned ==
    [][ (/\ phase = "pass2"
         /\ lineNum < Len(source)
         /\ IsInstructionLine(source[lineNum + 1]))
        => /\ phase' # "threw"
           /\ BadOperand(source[lineNum + 1]) =>
                 /\ phase' = "failed"
                 /\ ~res'.ok
                 /\ res'.lineNum = lineNum + 1 ]_vars

\* C21: when pass 2 comes to a one-operand .WORD line with the cursor inside
\* the buffer, it stores one word at the cursor and moves the cursor by one:
\* the address of the label when the operand names a declared label in any
\* letter case, otherwise, for a numeric literal, its value modulo 2^16.
C21_WordLabel ==
    [][ (/\ phase = "pass2"
         /\ lineNum < Len(source)
         /\ IsWord1Line(source[lineNum + 1])
         /\ pc < memSize
         /\ IsValueToken(source[lineNum + 1][2]))
        => LET arg == source[lineNum + 1][2]
           IN /\ phase' = "pass2"
              /\ pc' = U16(pc + 1)
              /\ pc \in DOMAIN mem'
              /\ mem'[pc] = (IF toUpper(arg) \in DOMAIN labels
                             THEN labels[toUpper(arg)]
                             ELSE parseNumber(arg) % WORD)
              /\ \A x \in DOMAIN mem : x # pc => (x \in DOMAIN mem' /\ mem'[x] = mem[x]) ]_vars

\* C22: no step of pass 2 stores outside the buffer: every word the line
\* stores, a single instruction, both words of a JMP/JZ expansion and the
\* word of either .WORD form, goes to an index below the capacity, whatever
\* the capacity and wherever the cursor is, and the pass never reaches a
\* state in which it has stored outside.
C22_StoresInsideBuffer ==
    [][ (phase = "pass2" /\ lineNum < Len(source))
        => /\ \A k \in 1..Len(pass2Line(source[lineNum + 1], pc, labels, memSize).writes) :
                 pass2Line(source[lineNum + 1], pc, labels, memSize).writes[k].addr < memSize
           /\ ~oob'
           /\ phase' # "ub" ]_vars

\* C23: a step() on a halted CPU changes no register and no memory word; a
\* step() that executes an instruction changes no register but R[rd], and
\* that one only under MOVI, MOV, LOAD, ADD, SUB, AND, OR, XOR, NOT, SHL or
\* SHR; it changes no memory word but the one at address R[rs], and that one
\* only under STORE, which leaves there the R[rd] of before the step.
C23_StepFrame ==
    [][ nsteps' = nsteps + 1 =>
        LET instr == last'.instr
            op    == (instr \div 4096) % 16
            rd    == (instr \div 512) % 8
            rs    == (instr \div 64) % 8
        IN IF instr = -1
           THEN R' = R /\ mem' = mem
           ELSE /\ \A i \in 0..7 :
                      R'[i] # R[i] => (i = rd /\ op \in {1, 2, 3, 5, 6, 7, 8, 9, 10, 11, 12})
                /\ \A x \in (DOMAIN mem) \cup (DOMAIN mem') :
                      BusRead(mem', x) # BusRead(mem, x)
                      => (op = 4 /\ x = R[rs] /\ BusRead(mem', x) = R[rd])
                /\ (op = 4 /\ R[rs] < memSize) => BusRead(mem', R[rs]) = R[rd]
                /\ op # 4 => mem' = mem ]_vars

\* C23 witness: a STORE at PC = 0 has written 65535, the value of R[rd], to
\* address 1, the value of R[rs], and has left every register as it was.
C23_Witness ==
    /\ Executed
    /\ nsteps = 1
    /\ LastOp = 4
    /\ last.PC = 0
    /\ last.R[LastRs] = 1
    /\ last.R[LastRd] = 65535
    /\ DOMAIN mem = {0, 1}
    /\ mem[1] = 65535
    /\ R = last.R

====
